---------------------------- MODULE Spec2Model ----------------------------
(***************************************************************************)
(* State-machine model of bigquery_to_sqlite.py: one run of                *)
(* convert_bigquery_to_sqlite (optionally called from main) against a      *)
(* remote table and a local SQLite file, and re-runs against the same      *)
(* unchanged source.                                                       *)
(*                                                                         *)
(* Python values are records tagged with their type (py), SQLite values    *)
(* are records tagged with their storage class (sql).  Floating-point      *)
(* numbers are carried in tenths (1005 is 100.5).                          *)
(***************************************************************************)
EXTENDS Integers, Sequences, FiniteSets, TLC

(***************************************************************************)
(* Bounds of the model.                                                    *)
(***************************************************************************)
MaxRows == 4      \* longest remote table explored
MaxRuns == 2      \* runs in a row against the same source

\* The batch threshold of line 102, which is 1000 in the source: scaled
\* down so that full batches, exact multiples and partial batches all occur
\* within MaxRows.  No property below depends on its value.
batch_size == 2

(***************************************************************************)
(* Python values.                                                          *)
(***************************************************************************)
PyNone == [py |-> "NoneType"]
PyInt(n) == [py |-> "int", v |-> n]
PyFloat(t) == [py |-> "float", tenths |-> t]
PyStr(s) == [py |-> "str", s |-> s]
PyDatetime(d) == [py |-> "datetime", day |-> d]
Raise(e) == [py |-> "raise", exc |-> e]

IsRaise(x) == x.py = "raise"

\* Numeric literals that occur as strings in the rows explored, with
\* their value in tenths; IntLiterals are those int() accepts.
NumericLiterals == {"1200", "101", "12.5"}
IntLiterals == {"1200", "101"}
LiteralTenths(s) ==
    CASE s = "1200" -> 12000
      [] s = "101" -> 1010
      [] s = "12.5" -> 125

\* Truncation toward zero of a number given in tenths.
Trunc(t) == IF t >= 0 THEN t \div 10 ELSE -((-t) \div 10)

\* float(x), lines 114-117
float(x) ==
    CASE x.py = "float" -> x
      [] x.py = "int" -> PyFloat(10 * x.v)
      [] x.py = "str" -> IF x.s \in NumericLiterals
                            THEN PyFloat(LiteralTenths(x.s))
                            ELSE Raise("ValueError")
      [] OTHER -> Raise("TypeError")

\* int(x), line 118
int(x) ==
    CASE x.py = "int" -> x
      [] x.py = "float" -> PyInt(Trunc(x.tenths))
      [] x.py = "str" -> IF x.s \in IntLiterals
                            THEN PyInt(LiteralTenths(x.s) \div 10)
                            ELSE Raise("ValueError")
      [] OTHER -> Raise("TypeError")

\* datetime.isoformat() of the (timezone-aware) timestamps explored.
isoformat(d) ==
    CASE d = 0 -> "2023-12-29T00:00:00+00:00"
      [] d = 1 -> "2024-01-02T00:00:00+00:00"
      [] d = 2 -> "2024-01-03T00:00:00+00:00"

\* line 109: row.ts.isoformat() if hasattr(row.ts, 'isoformat') else str(row.ts)
ts_str(ts) ==
    CASE ts.py = "datetime" -> PyStr(isoformat(ts.day))
      [] ts.py = "str" -> ts
      [] ts.py = "NoneType" -> PyStr("None")

\* lines 109-119: the tuple appended to the batch, or the first exception
\* raised while building it (the fields are evaluated left to right).
Coerce(row) ==
    LET o == float(row.Open)
        h == float(row.High)
        l == float(row.Low)
        c == float(row.Close)
        v == int(row.Volume)
    IN  CASE IsRaise(o) -> o
          [] IsRaise(h) -> h
          [] IsRaise(l) -> l
          [] IsRaise(c) -> c
          [] IsRaise(v) -> v
          [] OTHER -> [py |-> "tuple", ts |-> ts_str(row.ts),
                       stock_code |-> row.stock_code, Open |-> o, High |-> h,
                       Low |-> l, Close |-> c, Volume |-> v]

(***************************************************************************)
(* SQLite: storage of a bound tuple in daily_kbars.                        *)
(***************************************************************************)
SqlNull == [sql |-> "null"]
SqlText(s) == [sql |-> "text", s |-> s]
SqlInteger(n) == [sql |-> "integer", v |-> n]
SqlReal(t) == [sql |-> "real", tenths |-> t]

\* Column affinities of the CREATE TABLE statement, lines 16-25
\* (a declared type TIMESTAMP has NUMERIC affinity).
Affinity ==
    [ts |-> "NUMERIC", stock_code |-> "TEXT", Open |-> "REAL", High |-> "REAL",
     Low |-> "REAL", Close |-> "REAL", Volume |-> "INTEGER"]

\* The value a column of the given affinity stores for a bound Python value.
ColumnStore(aff, x) ==
    CASE x.py = "NoneType" -> SqlNull
      [] x.py = "str" ->
            IF aff = "TEXT" \/ x.s \notin NumericLiterals THEN SqlText(x.s)
            ELSE IF x.s \in IntLiterals /\ aff # "REAL"
                 THEN SqlInteger(LiteralTenths(x.s) \div 10)
                 ELSE SqlReal(LiteralTenths(x.s))
      [] x.py = "int" ->
            IF aff = "REAL" THEN SqlReal(10 * x.v) ELSE SqlInteger(x.v)
      [] x.py = "float" ->
            IF aff \in {"INTEGER", "NUMERIC"} /\ x.tenths % 10 = 0
            THEN SqlInteger(x.tenths \div 10) ELSE SqlReal(x.tenths)

Columns == {"ts", "stock_code", "Open", "High", "Low", "Close", "Volume"}

\* The row the VALUES (?, ?, ?, ?, ?, ?, ?) of lines 95-99 builds from a tuple.
Bind(t) == [c \in Columns |-> ColumnStore(Affinity[c], t[c])]

\* NOT NULL on every column, lines 17-23
NotNullOk(r) == \A c \in Columns : r[c] # SqlNull

\* PRIMARY KEY (ts, stock_code), line 24
PrimaryKeyTsOnly(r) == <<r.ts>>
PrimaryKey(r) == <<r.ts, r.stock_code>>

\* INSERT that appends without removing the row it conflicts with.
InsertDuplicate(rows, r) == Append(rows, r)
\* INSERT OR REPLACE of one row, lines 95-99: the row holding the same
\* primary key is deleted, the new row is appended (it gets a new rowid).
Upsert(rows, r) ==
    Append(SelectSeq(rows, LAMBDA q : PrimaryKey(q) # PrimaryKey(r)), r)

\* cursor.executemany(insert_sql, batch), lines 122 and 129: one INSERT OR
\* REPLACE per tuple, in order; the first tuple that violates NOT NULL
\* aborts its own statement and raises, the rows before it stay written.
RECURSIVE ExecuteMany(_, _)
ExecuteMany(rows, batch) ==
    IF batch = <<>> THEN [rows |-> rows, ok |-> TRUE]
    ELSE LET r == Bind(Head(batch))
         IN  IF NotNullOk(r) THEN ExecuteMany(Upsert(rows, r), Tail(batch))
             ELSE [rows |-> rows, ok |-> FALSE]

(***************************************************************************)
(* sqlite3 connection: transactions.                                       *)
(***************************************************************************)
\* A connection that never opens a transaction (isolation_level = None).
OpensTransactionNever(stmt) == FALSE
\* sqlite3.connect(path) with the default isolation_level, line 63: the
\* module opens a transaction implicitly before INSERT, UPDATE, DELETE and
\* REPLACE statements, and before no other statement; a statement run
\* outside a transaction is committed as soon as it completes.
OpensTransaction(stmt) == stmt \in {"INSERT", "UPDATE", "DELETE", "REPLACE"}

\* The sink after a statement that turns the connection's view into v.
Execute(stmt, d, v, txn) ==
    IF txn \/ OpensTransaction(stmt)
    THEN [disk |-> d, view |-> v, in_transaction |-> TRUE]
    ELSE [disk |-> v, view |-> v, in_transaction |-> FALSE]

\* conn.rollback(), line 138: the connection's view becomes the committed one.
Rollback(d, v) == d

(***************************************************************************)
(* The remote table and the query.                                         *)
(***************************************************************************)
\* Rows of the remote table explored.  1 and 2 carry the same
\* (ts, stock_code) and different values; 4 has no stock_code; 5 has a
\* Close that is no number.
Pool ==
    << [ts |-> PyDatetime(1), stock_code |-> PyStr("2330"),
        Open |-> PyFloat(1005), High |-> PyFloat(1020), Low |-> PyFloat(995),
        Close |-> PyFloat(1010), Volume |-> PyInt(1200)],
       [ts |-> PyDatetime(1), stock_code |-> PyStr("2330"),
        Open |-> PyFloat(1005), High |-> PyFloat(1030), Low |-> PyFloat(995),
        Close |-> PyInt(101), Volume |-> PyStr("1200")],
       [ts |-> PyDatetime(1), stock_code |-> PyStr("2454"),
        Open |-> PyInt(50), High |-> PyStr("12.5"), Low |-> PyInt(-3),
        Close |-> PyFloat(77), Volume |-> PyFloat(-127)],
       [ts |-> PyDatetime(2), stock_code |-> PyNone,
        Open |-> PyFloat(1005), High |-> PyFloat(1020), Low |-> PyFloat(995),
        Close |-> PyFloat(1010), Volume |-> PyInt(1200)],
       [ts |-> PyDatetime(2), stock_code |-> PyStr("2330"),
        Open |-> PyFloat(1005), High |-> PyFloat(1020), Low |-> PyFloat(995),
        Close |-> PyStr("abc"), Volume |-> PyInt(1200)],
       [ts |-> PyDatetime(2), stock_code |-> PyStr("2454"),
        Open |-> PyFloat(60), High |-> PyFloat(61), Low |-> PyFloat(59),
        Close |-> PyFloat(60), Volume |-> PyStr("101")] >>

PoolIds == 1..Len(Pool)

\* ORDER BY ts, stock_code, line 81 (ascending; NULL sorts first).
CodeRank(c) ==
    CASE c = PyNone -> 0
      [] c = PyStr("2330") -> 1
      [] c = PyStr("2454") -> 2
OrderLeq(a, b) ==
    \/ a.ts.day < b.ts.day
    \/ a.ts.day = b.ts.day /\ CodeRank(a.stock_code) <= CodeRank(b.stock_code)
Ordered(seq) ==
    \A i \in 1..(Len(seq) - 1) : OrderLeq(Pool[seq[i]], Pool[seq[i + 1]])

\* The row sequences the remote engine can deliver: any finite table, in
\* the order the query asks for.
Tables ==
    {s \in UNION {[1..n -> PoolIds] : n \in 0..MaxRows} : Ordered(s)}

\* bool(x) of an Optional[int], line 84
Truthy(x) == x.py = "int" /\ x.v # 0

\* lines 71-85: the query text, as its ORDER BY and its optional LIMIT.
BuildQuery(lim) ==
    [order_by |-> <<"ts", "stock_code">>,
     limit_clause |-> IF Truthy(lim) THEN <<lim.v>> ELSE <<>>]

Min(a, b) == IF a <= b THEN a ELSE b

\* client.query(query).result(), lines 91-92: the remote engine rejects
\* a negative LIMIT and otherwise delivers the first rows of the table.
QueryValid(q) ==
    IF q.limit_clause = <<>> THEN TRUE ELSE q.limit_clause[1] >= 0
QueryResult(tbl, q) ==
    IF q.limit_clause = <<>> THEN tbl
    ELSE SubSeq(tbl, 1, Min(q.limit_clause[1], Len(tbl)))

(***************************************************************************)
(* The sink before the first run.                                          *)
(***************************************************************************)
Absent == [exists |-> FALSE, rows |-> <<>>]

Old1 ==
    [ts |-> SqlText(isoformat(1)), stock_code |-> SqlText("2330"),
     Open |-> SqlReal(900), High |-> SqlReal(910), Low |-> SqlReal(890),
     Close |-> SqlReal(905), Volume |-> SqlInteger(7)]
Old2 ==
    [ts |-> SqlText(isoformat(0)), stock_code |-> SqlText("1101"),
     Open |-> SqlReal(300), High |-> SqlReal(310), Low |-> SqlReal(290),
     Close |-> SqlReal(305), Volume |-> SqlInteger(9)]

PreSinks ==
    {Absent, [exists |-> TRUE, rows |-> <<>>],
     [exists |-> TRUE, rows |-> <<Old1, Old2>>]}

\* The limit argument: absent, or an integer.
Limits == {PyNone, PyInt(-1), PyInt(0), PyInt(2)}

\* main's exit code, lines 161-174
main_always_zero(raised) == 0
main_return(raised) == IF raised THEN 1 ELSE 0

(***************************************************************************)
(* State.                                                                  *)
(***************************************************************************)
VARIABLES
    caller,          \* "main" or "direct": who calls convert_bigquery_to_sqlite
    limit,           \* the limit argument
    table,           \* the remote table, as the row sequence the query orders
    pc,              \* position of the run
    query,           \* the query sent (<<>> before it is built)
    results,         \* the rows the remote cursor delivers
    pos,             \* rows of results consumed by the loop
    batch,           \* the buffer, line 103
    total_rows,      \* line 104
    conn,            \* "none", "open" or "closed": the sqlite3 connection
    in_transaction,  \* conn.in_transaction
    view,            \* the sink as the open connection sees it
    disk,            \* the committed sink: what other connections see
    exit_code,       \* main's return value (PyNone while there is none)
    error,           \* kind of the failure of this run ("none" if none)
    \* history variables, read by the properties only
    run,             \* number of the run
    pre,             \* the committed sink when the run started
    prev_committed,  \* the previous run ended committed
    applied,         \* tuples handed to a completed executemany, in order
    flushes,         \* sizes of the completed executemany calls, in order
    commits,         \* conn.commit() calls that succeeded in this run
    rollbacks        \* conn.rollback() calls in this run

vars ==
    <<caller, limit, table, pc, query, results, pos, batch, total_rows, conn,
      in_transaction, view, disk, exit_code, error, run, pre, prev_committed,
      applied, flushes, commits, rollbacks>>

args == <<caller, limit, table>>
locals == <<query, results, pos, batch, total_rows>>
history == <<run, pre, prev_committed>>

Terminal == {"committed", "failed"}

\* What main returns, when main is the caller.
ExitCode(raised) ==
    IF caller = "main" THEN PyInt(main_return(raised)) ELSE PyNone

Init ==
    /\ caller \in {"main", "direct"}
    /\ limit \in IF caller = "main" THEN {PyNone} ELSE Limits  \* line 159
    /\ table \in Tables
    /\ disk \in PreSinks
    /\ pc = "disconnected"
    /\ query = <<>>
    /\ results = <<>>
    /\ pos = 0
    /\ batch = <<>>
    /\ total_rows = 0
    /\ conn = "none"
    /\ in_transaction = FALSE
    /\ view = disk
    /\ exit_code = PyNone
    /\ error = "none"
    /\ run = 1
    /\ pre = disk
    /\ prev_committed = FALSE
    /\ applied = <<>>
    /\ flushes = <<>>
    /\ commits = 0
    /\ rollbacks = 0

(***************************************************************************)
(* Lines 50-64: the BigQuery client and the sqlite3 connection.            *)
(***************************************************************************)
Connect ==
    /\ pc = "disconnected"
    /\ pc' = "connected"
    /\ conn' = "open"
    /\ view' = disk
    /\ in_transaction' = FALSE
    /\ UNCHANGED <<args, locals, disk, exit_code, error, history, applied,
                   flushes, commits, rollbacks>>

\* The client cannot be built (credentials) or the file cannot be opened:
\* the exception leaves the function before the try statement.
ConnectFail ==
    /\ pc = "disconnected"
    /\ \E k \in {"authentication", "sink"} : error' = k
    /\ pc' = "failed"
    /\ exit_code' = ExitCode(TRUE)
    /\ UNCHANGED <<args, locals, conn, in_transaction, view, disk, history,
                   applied, flushes, commits, rollbacks>>

\* Lines 137-143: except (rollback, re-raise) and finally (close), from a
\* sink whose committed state is d and whose connection sees v.
ExceptPath(kind, d, v) ==
    /\ error' = kind
    /\ disk' = Rollback(d, v)
    /\ view' = Rollback(d, v)
    /\ in_transaction' = FALSE
    /\ rollbacks' = rollbacks + 1
    /\ conn' = "closed"
    /\ pc' = "failed"
    /\ exit_code' = ExitCode(TRUE)

(***************************************************************************)
(* Line 68: create_sqlite_table, lines 13-28.                              *)
(***************************************************************************)
create_sqlite_table ==
    LET e == Execute("CREATE", disk, [view EXCEPT !.exists = TRUE],
                     in_transaction)
    IN  /\ disk' = e.disk
        /\ view' = e.view
        /\ in_transaction' = e.in_transaction

CreateTable ==
    /\ pc = "connected"
    /\ create_sqlite_table
    /\ pc' = "schema_ready"
    /\ UNCHANGED <<args, locals, conn, exit_code, error, history, applied,
                   flushes, commits, rollbacks>>

CreateTableFail ==
    /\ pc = "connected"
    /\ ExceptPath("sink", disk, view)
    /\ UNCHANGED <<args, locals, history, applied, flushes, commits>>

(***************************************************************************)
(* Lines 71-92: the query.                                                 *)
(***************************************************************************)
Query ==
    /\ pc = "schema_ready"
    /\ query' = BuildQuery(limit)
    /\ QueryValid(query')
    /\ results' = QueryResult(table, query')
    /\ pc' = "streaming"
    /\ UNCHANGED <<args, pos, batch, total_rows, conn, in_transaction, view,
                   disk, exit_code, error, history, applied, flushes, commits,
                   rollbacks>>

\* The remote engine rejects the query, or fails while running it.
QueryFail ==
    /\ pc = "schema_ready"
    /\ query' = BuildQuery(limit)
    /\ ExceptPath("query", disk, view)
    /\ UNCHANGED <<args, results, pos, batch, total_rows, history, applied,
                   flushes, commits>>

(***************************************************************************)
(* Lines 107-125: the transfer loop.                                       *)
(***************************************************************************)
NextRow ==
    /\ pc = "streaming"
    /\ pos < Len(results)
    /\ LET t == Coerce(Pool[results[pos + 1]])
       IN  /\ ~IsRaise(t)
           /\ batch' = Append(batch, t)
    /\ pos' = pos + 1
    /\ pc' = IF Len(batch') >= batch_size THEN "batch_flush" ELSE "streaming"
    /\ UNCHANGED <<args, query, results, total_rows, conn, in_transaction,
                   view, disk, exit_code, error, history, applied, flushes,
                   commits, rollbacks>>

CoerceFail ==
    /\ pc = "streaming"
    /\ pos < Len(results)
    /\ IsRaise(Coerce(Pool[results[pos + 1]]))
    /\ ExceptPath("coercion", disk, view)
    /\ UNCHANGED <<args, locals, history, applied, flushes, commits>>

\* cursor.executemany of the whole buffer, then the count.
Flush(next) ==
    LET r == ExecuteMany(view.rows, batch)
        e == Execute("INSERT", disk, [view EXCEPT !.rows = r.rows],
                     in_transaction)
    IN  /\ r.ok
        /\ disk' = e.disk
        /\ view' = e.view
        /\ in_transaction' = e.in_transaction
        /\ total_rows' = total_rows + Len(batch)
        /\ applied' = applied \o batch
        /\ flushes' = Append(flushes, Len(batch))
        /\ pc' = next

\* A flush that also commits (conn.commit() inside the loop).
BatchFlushCommits ==
    /\ pc = "batch_flush"
    /\ LET r == ExecuteMany(view.rows, batch)
       IN  /\ r.ok
           /\ view' = [view EXCEPT !.rows = r.rows]
    /\ disk' = view'
    /\ in_transaction' = FALSE
    /\ commits' = commits + 1
    /\ total_rows' = total_rows + Len(batch)
    /\ applied' = applied \o batch
    /\ flushes' = Append(flushes, Len(batch))
    /\ batch' = <<>>
    /\ pc' = "streaming"
    /\ UNCHANGED <<args, query, results, pos, conn, exit_code, error, history,
                   rollbacks>>

\* A flush that leaves the buffer as it is (no batch = []).
BatchFlushKeepsBuffer ==
    /\ pc = "batch_flush"
    /\ Flush("streaming")
    /\ UNCHANGED <<args, query, results, pos, batch, conn, exit_code, error,
                   history, commits, rollbacks>>

\* Lines 121-125
BatchFlush ==
    /\ pc = "batch_flush"
    /\ Flush("streaming")
    /\ batch' = <<>>
    /\ UNCHANGED <<args, query, results, pos, conn, exit_code, error, history,
                   commits, rollbacks>>

\* executemany raises after k tuples of the buffer were written: the
\* tuple after them violates NOT NULL, or the sink fails (I/O, lock).
UpsertFail ==
    /\ pc \in {"batch_flush", "final_flush"}
    /\ \E k \in 0..(Len(batch) - 1) :
         LET r == ExecuteMany(view.rows, SubSeq(batch, 1, k))
             e == Execute("INSERT", disk, [view EXCEPT !.rows = r.rows],
                          in_transaction)
         IN  /\ r.ok
             /\ ExceptPath("sink", e.disk, e.view)
    /\ UNCHANGED <<args, locals, history, applied, flushes, commits>>

\* A loop exit that goes straight to the commit (no flush of the rest).
EndOfRowsNoFlush ==
    /\ pc = "streaming"
    /\ pos = Len(results)
    /\ pc' = "committing"
    /\ UNCHANGED <<args, locals, conn, in_transaction, view, disk, exit_code,
                   error, history, applied, flushes, commits, rollbacks>>

\* The for statement finds the cursor exhausted, line 107 to line 128.
EndOfRows ==
    /\ pc = "streaming"
    /\ pos = Len(results)
    /\ pc' = IF batch # <<>> THEN "final_flush" ELSE "committing"
    /\ UNCHANGED <<args, locals, conn, in_transaction, view, disk, exit_code,
                   error, history, applied, flushes, commits, rollbacks>>

\* Lines 128-130
FinalFlush ==
    /\ pc = "final_flush"
    /\ Flush("committing")
    /\ UNCHANGED <<args, query, results, pos, batch, conn, exit_code, error,
                   history, commits, rollbacks>>

(***************************************************************************)
(* Lines 133-135 and 141-143: commit, close, return.                       *)
(***************************************************************************)
Commit ==
    /\ pc = "committing"
    /\ disk' = view
    /\ in_transaction' = FALSE
    /\ commits' = commits + 1
    /\ conn' = "closed"
    /\ pc' = "committed"
    /\ exit_code' = ExitCode(FALSE)
    /\ UNCHANGED <<args, locals, view, error, history, applied, flushes,
                   rollbacks>>

CommitFail ==
    /\ pc = "committing"
    /\ ExceptPath("sink", disk, view)
    /\ UNCHANGED <<args, locals, history, applied, flushes, commits>>

(***************************************************************************)
(* The next invocation, with the same arguments and the same remote table. *)
(***************************************************************************)
Rerun ==
    /\ pc \in Terminal
    /\ run < MaxRuns
    /\ run' = run + 1
    /\ pre' = disk
    /\ prev_committed' = (pc = "committed")
    /\ pc' = "disconnected"
    /\ query' = <<>>
    /\ results' = <<>>
    /\ pos' = 0
    /\ batch' = <<>>
    /\ total_rows' = 0
    /\ conn' = "none"
    /\ in_transaction' = FALSE
    /\ view' = disk
    /\ exit_code' = PyNone
    /\ error' = "none"
    /\ applied' = <<>>
    /\ flushes' = <<>>
    /\ commits' = 0
    /\ rollbacks' = 0
    /\ UNCHANGED <<args, disk>>

Next ==
    \/ Connect
    \/ ConnectFail
    \/ CreateTable
    \/ CreateTableFail
    \/ Query
    \/ QueryFail
    \/ NextRow
    \/ CoerceFail
    \/ BatchFlush
    \/ UpsertFail
    \/ EndOfRows
    \/ FinalFlush
    \/ Commit
    \/ CommitFail
    \/ Rerun

Spec == Init /\ [][Next]_vars

(***************************************************************************)
(* Helpers of the properties.                                              *)
(***************************************************************************)
RowSet(rows) == {rows[i] : i \in 1..Len(rows)}

\* The tuples the loop builds from a sequence of remote rows.
Tuples(seq) == [i \in 1..Len(seq) |-> Coerce(Pool[seq[i]])]

\* The rows stored for the tuples applied so far.
Stored == [i \in 1..Len(applied) |-> Bind(applied[i])]

SameKey(a, b) == a.ts = b.ts /\ a.stock_code = b.stock_code

\* Every arrangement of the elements of seq.
RECURSIVE Arrangements(_, _)
Arrangements(seq, S) ==
    IF S = {} THEN {<<>>}
    ELSE UNION {{<<seq[i]>> \o a : a \in Arrangements(seq, S \ {i})} : i \in S}
ArrivalOrders(seq) == Arrangements(seq, 1..Len(seq))

(***************************************************************************)
(* C1  Rollback on failure: a run that fails leaves daily_kbars with the   *)
(* rows it had before the run; no row of a flushed batch stays visible.    *)
(***************************************************************************)
C1_RollbackOnFailure ==
    pc = "failed" => disk.rows = pre.rows

\* The last batch of an otherwise valid run failed, after a flushed batch.
C1_Witness ==
    /\ pc = "failed"
    /\ error = "sink"
    /\ pos = Len(results)
    /\ Len(flushes) >= 1
    /\ Len(batch) >= 1
    /\ pre.rows # <<>>

(***************************************************************************)
(* C2  Idempotence: a successful run that follows a successful run against *)
(* the unchanged source leaves the sink with the same row count and the    *)
(* same rows.                                                              *)
(***************************************************************************)
C2_Idempotence ==
    (pc = "committed" /\ prev_committed) =>
        /\ Len(disk.rows) = Len(pre.rows)
        /\ RowSet(disk.rows) = RowSet(pre.rows)

C2_Witness ==
    /\ pc = "committed"
    /\ prev_committed
    /\ Len(results) > batch_size
    /\ Len(disk.rows) >= 3

(***************************************************************************)
(* C3  Partial-batch flush: a successful run applies every delivered row   *)
(* exactly once, in order, and total_rows is the number of rows delivered, *)
(* whatever that number is.                                                *)
(***************************************************************************)
C3_PartialBatchFlush ==
    pc = "committed" =>
        /\ applied = Tuples(results)
        /\ total_rows = Len(results)
        /\ batch # <<>> =>
             SubSeq(applied, Len(applied) - Len(batch) + 1, Len(applied)) = batch

\* A source of one full batch and a partial one.
C3_Witness ==
    /\ pc = "committed"
    /\ Len(results) = batch_size + 1
    /\ flushes = <<batch_size, 1>>
    /\ total_rows = batch_size + 1

(***************************************************************************)
(* C4  Composite key upsert: after a successful run the sink holds one row *)
(* per (ts, stock_code); for a key of the source, the row applied last;    *)
(* for any other key, the row it held before the run; and nothing else.    *)
(***************************************************************************)
C4_CompositeKeyUpsert ==
    pc = "committed" =>
        /\ disk.exists
        /\ \A i, j \in 1..Len(disk.rows) :
             SameKey(disk.rows[i], disk.rows[j]) => i = j
        /\ \A i \in 1..Len(Stored) :
             (\A j \in (i + 1)..Len(Stored) : ~SameKey(Stored[i], Stored[j]))
                 => Stored[i] \in RowSet(disk.rows)
        /\ \A q \in RowSet(pre.rows) :
             (\A i \in 1..Len(Stored) : ~SameKey(q, Stored[i]))
                 => q \in RowSet(disk.rows)
        /\ \A q \in RowSet(disk.rows) :
             q \in RowSet(pre.rows) \/ q \in RowSet(Stored)

\* Two source rows share a key and differ, one pre-run row is overwritten
\* and one is kept.
C4_Witness ==
    /\ pc = "committed"
    /\ \E i, j \in 1..Len(Stored) :
         i < j /\ SameKey(Stored[i], Stored[j]) /\ Stored[i] # Stored[j]
    /\ Old2 \in RowSet(disk.rows)
    /\ Old1 \in RowSet(pre.rows)
    /\ Old1 \notin RowSet(disk.rows)

(***************************************************************************)
(* C5  Ordering irrelevance.                                               *)
(***************************************************************************)
\* The rows a successful run leaves for the rows seq, from the pre-run sink.
SinkFor(seq) == RowSet(ExecuteMany(pre.rows, Tuples(seq)).rows)

\* C5 as claimed: after a successful run the sink holds what any other
\* arrival order of the same rows would have left.
C5_OrderingIrrelevance ==
    pc = "committed" =>
        \A p \in ArrivalOrders(results) : SinkFor(p) = RowSet(disk.rows)

\* Source rows that share (ts, stock_code) are equal in every field.
NoConflictingRows ==
    \A i, j \in 1..Len(results) :
        LET a == Bind(Tuples(results)[i])
            b == Bind(Tuples(results)[j])
        IN  SameKey(a, b) => a = b

\* C5 as amended: after a successful run over rows of which no two share
\* (ts, stock_code) with different values, the sink holds what any other
\* arrival order of the same rows would have left.
C5_OrderingIrrelevanceAmended ==
    (pc = "committed" /\ NoConflictingRows) =>
        \A p \in ArrivalOrders(results) : SinkFor(p) = RowSet(disk.rows)

C5_Witness ==
    /\ pc = "committed"
    /\ NoConflictingRows
    /\ Len(results) >= 3
    /\ \E i, j \in 1..Len(results) : results[i] # results[j]
    /\ pre.rows # <<>>

(***************************************************************************)
(* C6  Limit clause: the query carries LIMIT <value> exactly when a limit  *)
(* is given, whatever integer it is, and a successful run with a limit L   *)
(* transfers at most L rows.                                               *)
(***************************************************************************)
C6_LimitClause ==
    query # <<>> =>
        /\ (query.limit_clause # <<>>) <=> (limit # PyNone)
        /\ limit # PyNone => query.limit_clause = <<limit.v>>
        /\ (pc = "committed" /\ limit # PyNone) => total_rows <= limit.v

(***************************************************************************)
(* C7  Schema creation is part of the transaction: a run that starts       *)
(* without the table daily_kbars and fails after the connection is opened  *)
(* ends without the table.                                                 *)
(***************************************************************************)
C7_SchemaCreationRolledBack ==
    (pc = "failed" /\ conn = "closed" /\ ~pre.exists) => ~disk.exists

(***************************************************************************)
(* C8  Process exit contract: main returns 0 exactly when the run reached  *)
(* the commit without error; a failure of any kind ends the run raised     *)
(* and main returns non-zero.                                              *)
(***************************************************************************)
C8_ExitContract ==
    /\ error # "none" => pc = "failed"
    /\ caller = "main" =>
         /\ exit_code = PyInt(0) <=> (pc = "committed" /\ commits = 1)
         /\ pc = "failed" => (exit_code # PyNone /\ exit_code.v # 0)
         /\ pc \notin Terminal => exit_code = PyNone

C8_Witness ==
    /\ caller = "main"
    /\ pc = "failed"
    /\ error = "coercion"
    /\ exit_code = PyInt(1)
    /\ Len(flushes) >= 1

(***************************************************************************)
(* C9  Run state machine.                                                  *)
(***************************************************************************)
\* disconnected -> connected -> schema-ready -> streaming ->
\* (batch-flush)* -> committed; the last buffer and the commit itself are
\* steps of their own here.
SuccessEdges ==
    {<<"disconnected", "connected">>, <<"connected", "schema_ready">>,
     <<"schema_ready", "streaming">>, <<"streaming", "batch_flush">>,
     <<"batch_flush", "streaming">>, <<"streaming", "final_flush">>,
     <<"streaming", "committing">>, <<"final_flush", "committing">>,
     <<"committing", "committed">>}

AfterConnected ==
    {"connected", "schema_ready", "streaming", "batch_flush", "final_flush",
     "committing"}

FailureEdges == {<<s, "failed">> : s \in AfterConnected}

\* One step of a run along the given edges: the commit happens once, from
\* the end of the stream with every delivered row applied, and never in a
\* run that failed; a failure after connected rolls back; committed and
\* failed are left only by the next run.
RunStep(edges) ==
    IF run' # run THEN pc \in Terminal /\ pc' = "disconnected"
    ELSE /\ pc' # pc => <<pc, pc'>> \in edges
         /\ commits' # commits =>
              /\ commits = 0 /\ commits' = 1
              /\ pc = "committing" /\ pc' = "committed"
              /\ pos = Len(results) /\ total_rows = Len(results)
              /\ rollbacks = 0
         /\ pc' = "committed" => (commits' = 1 /\ rollbacks' = 0)
         /\ pc' = "failed" => commits' = 0
         /\ (pc \in AfterConnected /\ pc' = "failed") =>
              (rollbacks' = 1 /\ view' = disk' /\ ~in_transaction')

\* C9 as claimed: every run follows disconnected -> connected ->
\* schema-ready -> streaming -> (batch-flush)* -> committed, or moves to
\* failed (rolled back) from a state after connected, with one commit, at
\* the end of a successful run only.
C9_RunStateMachine ==
    [][RunStep(SuccessEdges \cup FailureEdges)]_vars

\* C9 as amended: as claimed, and a run also fails from disconnected,
\* when the client or the connection cannot be set up: then nothing is
\* rolled back, as no connection exists.
C9_RunStateMachineAmended ==
    [][/\ RunStep(SuccessEdges \cup FailureEdges
                    \cup {<<"disconnected", "failed">>})
       /\ (run' = run /\ pc = "disconnected" /\ pc' = "failed") =>
            (rollbacks' = 0 /\ conn' = "none" /\ disk' = disk)]_vars

\* A successful run of several flushes, the last one partial.
C9_Witness ==
    /\ pc = "committed"
    /\ commits = 1
    /\ rollbacks = 0
    /\ Len(flushes) >= 2
    /\ flushes[Len(flushes)] < batch_size

(***************************************************************************)
(* C10  Batch buffer invariant: between iterations the buffer holds fewer  *)
(* than batch_size rows, total_rows is a multiple of batch_size and        *)
(* total_rows + len(batch) is the number of rows consumed; a flush inside  *)
(* the loop applies batch_size rows and empties the buffer; the flush      *)
(* after the loop applies 1 to batch_size - 1 rows, and there is none when *)
(* the buffer is empty.                                                    *)
(***************************************************************************)
C10_BatchBufferInvariant ==
    /\ pc = "streaming" =>
         /\ Len(batch) < batch_size
         /\ total_rows % batch_size = 0
         /\ total_rows + Len(batch) = pos
         /\ \A i \in 1..Len(flushes) : flushes[i] = batch_size
    /\ pc = "batch_flush" =>
         (Len(batch) = batch_size /\ total_rows + Len(batch) = pos)
    /\ pc = "final_flush" =>
         (Len(batch) >= 1 /\ Len(batch) <= batch_size - 1)
    /\ pc \in {"committing", "committed"} =>
         /\ \A i \in 1..(Len(flushes) - 1) : flushes[i] = batch_size
         /\ Len(results) % batch_size = 0 =>
              /\ Len(flushes) = Len(results) \div batch_size
              /\ \A i \in 1..Len(flushes) : flushes[i] = batch_size
         /\ Len(results) % batch_size # 0 =>
              /\ Len(flushes) = (Len(results) \div batch_size) + 1
              /\ flushes[Len(flushes)] = Len(results) % batch_size

\* A full batch was flushed and the rest waits for the flush after the loop.
C10_Witness ==
    /\ pc = "final_flush"
    /\ total_rows = batch_size
    /\ flushes = <<batch_size>>
    /\ Len(batch) = 1

=============================================================================
